---- MODULE Spec2Model ----
(***************************************************************************)
(* ETL_PubChem.py: fetch_data -> compute_descriptors -> save_to_mongo and  *)
(* the __main__ runner, as a state machine.  One action per statement      *)
(* group; the HTTP service, the RDKit parser and the MongoDB driver are    *)
(* the environment and answer nondeterministically.                        *)
(***************************************************************************)
EXTENDS Integers, Sequences, FiniteSets, TLC

VARIABLES
  entry,          \* which callable of the module is being driven
  pc,             \* control position
  exc,            \* the exception in flight (NoExc when none)
  calls,          \* the functions of the module invoked so far, in order
  compound_name,  \* fetch_data: argument
  response,       \* fetch_data: local `response`
  data,           \* fetch_data: local `data`
  compound,       \* fetch_data: local `compound`
  smiles,         \* fetch_data: local `smiles`
  fetch_ret,      \* fetch_data: returned value
  c_smiles,       \* compute_descriptors: argument `smiles`
  compute_ret,    \* compute_descriptors: returned value
  document,       \* save_to_mongo: argument
  client,         \* save_to_mongo: local `client` ("unbound" | "open" | "closed")
  save_ret,       \* save_to_mongo: value of the pending / completed return
  pubchem_data,   \* __main__: pubchem_data
  descriptors,    \* __main__: descriptors
  mongo_id,       \* __main__: mongo_id
  store,          \* the collection: documents inserted, with their _id
  log,            \* logger calls, in order
  stdout,         \* print / pprint calls, in order
  requests_sent,  \* names substituted in the URLs given to requests.get
  json_calls,     \* number of response.json() calls
  opened,         \* MongoClient objects constructed
  closed,         \* MongoClient objects closed
  close_calls,    \* executions of the statement client.close()
  insert_calls,   \* insert_one calls
  store_fault     \* the error the MongoDB driver raised in this call, if any

vars == <<entry, pc, exc, calls, compound_name, response, data, compound, smiles,
          fetch_ret, c_smiles, compute_ret, document, client, save_ret,
          pubchem_data, descriptors, mongo_id, store, log, stdout,
          requests_sent, json_calls, opened, closed, close_calls, insert_calls,
          store_fault>>

fetchLocals == <<compound_name, response, data, compound, smiles, fetch_ret>>
computeLocals == <<c_smiles, compute_ret>>
saveLocals == <<document, client, save_ret>>
mainLocals == <<pubchem_data, descriptors, mongo_id>>
httpVars == <<requests_sent, json_calls>>
mongoVars == <<store, opened, closed, close_calls, insert_calls, store_fault>>

----------------------------------------------------------------------------
(* Bounds of the environment's answers *)

MaxProps == 2
MaxCompounds == 2

----------------------------------------------------------------------------
(* Python values: a type tag and the value's text *)

Str(s) == [t |-> "str", v |-> s]
IntV(s) == [t |-> "int", v |-> s]
NoneV == [t |-> "NoneType", v |-> ""]
Unbound == [t |-> "unbound", v |-> ""]

IsStr(x) == x.t = "str"

Truthy(x) ==
  CASE x.t = "str" -> x.v # ""
    [] x.t = "int" -> x.v # "0"
    [] OTHER -> FALSE

Has(obj, key) == key \in DOMAIN obj

SeqsUpTo(S, n) == UNION {[1..k -> S] : k \in 0..n}

----------------------------------------------------------------------------
(* Exceptions and their classes *)

Exc(type, msg) == [type |-> type, msg |-> msg]
NoExc == Exc("", "")

Bases(type) ==
  CASE type = "ValueError" -> {"ValueError", "Exception"}
    [] type = "JSONDecodeError" ->
         {"JSONDecodeError", "ValueError", "RequestException", "Exception"}
    [] type = "ConnectionError" ->
         {"ConnectionError", "RequestException", "Exception"}
    [] type = "TypeError" -> {"TypeError", "Exception"}
    [] type = "KeyError" -> {"KeyError", "Exception"}
    [] type = "UnboundLocalError" -> {"UnboundLocalError", "Exception"}
    [] type = "RuntimeError" -> {"RuntimeError", "Exception"}
    [] type = "ConnectionFailure" ->
         {"ConnectionFailure", "PyMongoError", "Exception"}
    [] type = "ConfigurationError" ->
         {"ConfigurationError", "PyMongoError", "Exception"}
    [] type = "DuplicateKeyError" ->
         {"DuplicateKeyError", "PyMongoError", "Exception"}
    [] OTHER -> {}

IsInstance(e, class) == class \in Bases(e.type)

----------------------------------------------------------------------------
(* What the compound service can answer *)

SmilesUrn == [label |-> "SMILES", name |-> "Connectivity"]

PropUniverse ==
  { [urn |-> SmilesUrn, value |-> [sval |-> Str("CCO")]],
    [urn |-> SmilesUrn, value |-> [sval |-> Str("XX")]],
    [urn |-> SmilesUrn, value |-> [sval |-> Str("")]],
    [urn |-> SmilesUrn, value |-> [sval |-> IntV("7")]],
    [urn |-> SmilesUrn, value |-> [ival |-> IntV("7")]],
    [urn |-> SmilesUrn],
    [urn |-> [label |-> "SMILES", name |-> "Absolute"],
     value |-> [sval |-> Str("C")]],
    [urn |-> [label |-> "Molecular Weight"]],
    [value |-> [sval |-> Str("C")]] }

FirstCompounds ==
  {[id |-> "2244"]} \cup
  {[id |-> "2244", props |-> ps] : ps \in SeqsUpTo(PropUniverse, MaxProps)}

LaterCompounds ==
  { [id |-> "2245"],
    [id |-> "2245",
     props |-> <<[urn |-> SmilesUrn, value |-> [sval |-> Str("C")]]>>] }

CompoundLists ==
  {<<>>} \cup
  {<<c>> \o rest : c \in FirstCompounds,
                   rest \in SeqsUpTo(LaterCompounds, MaxCompounds - 1)}

Datas ==
  {[Fault |-> "PUGREST.NotFound"]} \cup
  {[PC_Compounds |-> cl] : cl \in CompoundLists}

Bodies == {[json |-> FALSE]} \cup {[json |-> TRUE, data |-> d] : d \in Datas}

StatusCodes == {200, 202, 404}

Responses == {[status_code |-> s, body |-> b] : s \in StatusCodes, b \in Bodies}

RequestFailures == {Exc("ConnectionError", "Max retries exceeded")}

----------------------------------------------------------------------------
(* Arguments of the directly driven calls *)

CompoundNames == {Str("aspirin"), Str(""), NoneV, IntV("0"), IntV("5")}

SmilesArgs == {Str("CCO"), Str("C"), Str("XX"), Str(""), NoneV, IntV("7")}

Documents ==
  { [name |-> Str("water")],
    [name |-> Str("ethanol"), smiles |-> Str("CCO"),
     descriptors |-> [MolWt |-> 46069, LogP |-> -14,
                      NumHDonors |-> 1, NumHAcceptors |-> 1]] }

----------------------------------------------------------------------------
(* Logging and standard output *)

LogEntry(level, text, e) == [level |-> level, text |-> text, exc |-> e]

Emit(tag, value) == <<tag, value>>

----------------------------------------------------------------------------
(* Init: one of the module's four callables is about to run.  __main__     *)
(* takes no input; a direct call takes its argument from a bounded set.    *)

Init ==
  /\ entry \in {"main", "fetch_data", "compute_descriptors", "save_to_mongo"}
  /\ pc = CASE entry = "main" -> "main"
            [] entry = "fetch_data" -> "fetch_validate"
            [] entry = "compute_descriptors" -> "compute_validate"
            [] OTHER -> "save_open"
  /\ calls = IF entry = "main" THEN <<>> ELSE <<entry>>
  /\ exc = NoExc
  /\ compound_name \in IF entry = "fetch_data" THEN CompoundNames ELSE {Unbound}
  /\ c_smiles \in IF entry = "compute_descriptors" THEN SmilesArgs ELSE {Unbound}
  /\ document \in IF entry = "save_to_mongo" THEN Documents ELSE {Unbound}
  /\ response = Unbound
  /\ data = Unbound
  /\ compound = Unbound
  /\ smiles = Unbound
  /\ fetch_ret = Unbound
  /\ compute_ret = Unbound
  /\ client = "unbound"
  /\ save_ret = Unbound
  /\ pubchem_data = Unbound
  /\ descriptors = Unbound
  /\ mongo_id = Unbound
  /\ store = <<>>
  /\ log = <<>>
  /\ stdout = <<>>
  /\ requests_sent = <<>>
  /\ json_calls = 0
  /\ opened = 0
  /\ closed = 0
  /\ close_calls = 0
  /\ insert_calls = 0
  /\ store_fault = NoExc

----------------------------------------------------------------------------
(* fetch_data *)

\* lines 78-79: compound = "aspirin"; fetch_data(compound)
MainCallFetch ==
  /\ pc = "main"
  /\ compound_name' = Str("aspirin")
  /\ calls' = Append(calls, "fetch_data")
  /\ pc' = "fetch_validate"
  /\ UNCHANGED <<entry, exc, response, data, compound, smiles, fetch_ret,
                 computeLocals, saveLocals, mainLocals, log, stdout,
                 httpVars, mongoVars>>

\* variant: the isinstance test left out
M_InvalidName(name) == ~Truthy(name)

\* line 20: not compound_name or not isinstance(compound_name, str)
InvalidName(name) == ~Truthy(name) \/ ~IsStr(name)

\* lines 20-21
FetchValidate ==
  /\ pc = "fetch_validate"
  /\ IF InvalidName(compound_name)
       THEN /\ exc' = Exc("ValueError", "Invalid compound name")
            /\ pc' = "fetch_raised"
       ELSE /\ exc' = exc
            /\ pc' = "fetch_get"
  /\ UNCHANGED <<entry, calls, fetchLocals, computeLocals, saveLocals,
                 mainLocals, log, stdout, httpVars, mongoVars>>

\* variant: a failed request is sent again
M_FetchGet ==
  /\ pc = "fetch_get"
  /\ requests_sent' = Append(requests_sent, compound_name.v)
  /\ \/ /\ pc' = "fetch_get"
        /\ UNCHANGED <<response, log, exc>>
     \/ \E r \in Responses :
          /\ response' = r
          /\ log' = Append(log, LogEntry("DEBUG", "Fetching from", NoExc))
          /\ pc' = "fetch_status"
          /\ exc' = exc
  /\ UNCHANGED <<entry, calls, compound_name, data, compound, smiles, fetch_ret,
                 computeLocals, saveLocals, mainLocals, stdout, json_calls,
                 mongoVars>>

\* lines 22-24: one requests.get; it raises or answers
FetchGet ==
  /\ pc = "fetch_get"
  /\ requests_sent' = Append(requests_sent, compound_name.v)
  /\ \/ \E e \in RequestFailures :
          /\ exc' = e
          /\ pc' = "fetch_raised"
          /\ UNCHANGED <<response, log>>
     \/ \E r \in Responses :
          /\ response' = r
          /\ log' = Append(log, LogEntry("DEBUG", "Fetching from", NoExc))
          /\ pc' = "fetch_status"
          /\ exc' = exc
  /\ UNCHANGED <<entry, calls, compound_name, data, compound, smiles, fetch_ret,
                 computeLocals, saveLocals, mainLocals, stdout, json_calls,
                 mongoVars>>

\* variant: only error statuses (>= 400) are refused
M_FetchStatus ==
  /\ pc = "fetch_status"
  /\ IF response.status_code >= 400
       THEN /\ exc' = Exc("ValueError", "Failed")
            /\ pc' = "fetch_raised"
       ELSE /\ exc' = exc
            /\ pc' = "fetch_json"
  /\ UNCHANGED <<entry, calls, fetchLocals, computeLocals, saveLocals,
                 mainLocals, log, stdout, httpVars, mongoVars>>

\* lines 25-26
FetchStatus ==
  /\ pc = "fetch_status"
  /\ IF response.status_code # 200
       THEN /\ exc' = Exc("ValueError", "Failed")
            /\ pc' = "fetch_raised"
       ELSE /\ exc' = exc
            /\ pc' = "fetch_json"
  /\ UNCHANGED <<entry, calls, fetchLocals, computeLocals, saveLocals,
                 mainLocals, log, stdout, httpVars, mongoVars>>

\* lines 28-29: response.json(), pprint(data)
FetchJson ==
  /\ pc = "fetch_json"
  /\ json_calls' = json_calls + 1
  /\ IF response.body.json
       THEN /\ data' = response.body.data
            /\ stdout' = Append(stdout, Emit("pprint", response.body.data))
            /\ exc' = exc
            /\ pc' = "fetch_compounds"
       ELSE /\ exc' = Exc("JSONDecodeError", "Expecting value")
            /\ pc' = "fetch_raised"
            /\ UNCHANGED <<data, stdout>>
  /\ UNCHANGED <<entry, calls, compound_name, response, compound, smiles,
                 fetch_ret, computeLocals, saveLocals, mainLocals, log,
                 requests_sent, mongoVars>>

\* line 30: "PC_Compounds" not in data or not data["PC_Compounds"]
NoCompounds(d) == ~Has(d, "PC_Compounds") \/ d.PC_Compounds = <<>>

\* lines 30-32
FetchCompounds ==
  /\ pc = "fetch_compounds"
  /\ IF NoCompounds(data)
       THEN /\ exc' = Exc("ValueError", "No compound data found")
            /\ pc' = "fetch_raised"
            /\ UNCHANGED compound
       ELSE /\ compound' = data.PC_Compounds[1]
            /\ exc' = exc
            /\ pc' = "fetch_props"
  /\ UNCHANGED <<entry, calls, compound_name, response, data, smiles, fetch_ret,
                 computeLocals, saveLocals, mainLocals, log, stdout, httpVars,
                 mongoVars>>

\* variant: the qualifier left unchecked
M_PropMatches(p) ==
  /\ Has(p, "urn")
  /\ Has(p.urn, "label")
  /\ p.urn.label = "SMILES"

\* line 38: p.get("urn", {}).get("label") == "SMILES"
\*          and p["urn"].get("name") == "Connectivity"
PropMatches(p) ==
  /\ Has(p, "urn")
  /\ Has(p.urn, "label")
  /\ p.urn.label = "SMILES"
  /\ Has(p.urn, "name")
  /\ p.urn.name = "Connectivity"

\* lines 36-40: the loop over props from index i on; the exception it raises
\* (if any) and the value `smiles` is left with
RECURSIVE ScanProps(_, _)
ScanProps(props, i) ==
  IF i > Len(props)
    THEN [exc |-> NoExc, smiles |-> NoneV]
    ELSE IF PropMatches(props[i])
      THEN IF ~Has(props[i], "value")
             THEN [exc |-> Exc("KeyError", "value"), smiles |-> NoneV]
           ELSE IF ~Has(props[i].value, "sval")
             THEN [exc |-> Exc("KeyError", "sval"), smiles |-> NoneV]
           ELSE [exc |-> NoExc, smiles |-> props[i].value.sval]
      ELSE ScanProps(props, i + 1)

\* lines 34-40: props = compound.get("props"); for p in props: ...
ExtractSmiles(c) ==
  IF ~Has(c, "props")
    THEN [exc |-> Exc("TypeError", "'NoneType' object is not iterable"),
          smiles |-> NoneV]
    ELSE ScanProps(c.props, 1)

\* lines 34-40
FetchProps ==
  /\ pc = "fetch_props"
  /\ stdout' = Append(stdout,
                 Emit("pprint", IF Has(compound, "props") THEN compound.props
                                                        ELSE NoneV))
  /\ smiles' = ExtractSmiles(compound).smiles
  /\ exc' = ExtractSmiles(compound).exc
  /\ pc' = IF ExtractSmiles(compound).exc = NoExc THEN "fetch_smiles"
                                                 ELSE "fetch_raised"
  /\ UNCHANGED <<entry, calls, compound_name, response, data, compound,
                 fetch_ret, computeLocals, saveLocals, mainLocals, log,
                 httpVars, mongoVars>>

\* lines 41-44
FetchReturn ==
  /\ pc = "fetch_smiles"
  /\ IF ~Truthy(smiles)
       THEN /\ exc' = Exc("ValueError", "No SMILES found")
            /\ pc' = "fetch_raised"
            /\ UNCHANGED <<fetch_ret, log>>
       ELSE /\ log' = Append(log, LogEntry("INFO", "Successfully fetched data", NoExc))
            /\ fetch_ret' = [name |-> compound_name, smiles |-> smiles]
            /\ exc' = exc
            /\ pc' = "fetch_returned"
  /\ UNCHANGED <<entry, calls, compound_name, response, data, compound, smiles,
                 computeLocals, saveLocals, mainLocals, stdout, httpVars,
                 mongoVars>>

----------------------------------------------------------------------------
(* compute_descriptors *)

\* lines 79-83: pubchem_data = fetch_data(compound); print;
\* compute_descriptors(pubchem_data["smiles"]).  fetch_data's frame is gone.
MainCallCompute ==
  /\ entry = "main"
  /\ pc = "fetch_returned"
  /\ pubchem_data' = fetch_ret
  /\ stdout' = Append(stdout, Emit("Fetched from PubChem:", fetch_ret))
  /\ c_smiles' = fetch_ret.smiles
  /\ calls' = Append(calls, "compute_descriptors")
  /\ compound_name' = Unbound
  /\ response' = Unbound
  /\ data' = Unbound
  /\ compound' = Unbound
  /\ smiles' = Unbound
  /\ fetch_ret' = Unbound
  /\ pc' = "compute_validate"
  /\ UNCHANGED <<entry, exc, compute_ret, saveLocals, descriptors, mongo_id,
                 log, httpVars, mongoVars>>

\* line 48: not smiles or not isinstance(smiles, str)
InvalidSmiles(s) == ~Truthy(s) \/ ~IsStr(s)

\* lines 48-49
ComputeValidate ==
  /\ pc = "compute_validate"
  /\ IF InvalidSmiles(c_smiles)
       THEN /\ exc' = Exc("ValueError", "Pass SMILEs")
            /\ pc' = "compute_raised"
       ELSE /\ exc' = exc
            /\ pc' = "compute_mol"
  /\ UNCHANGED <<entry, calls, fetchLocals, computeLocals, saveLocals,
                 mainLocals, log, stdout, httpVars, mongoVars>>

\* line 50: Chem.MolFromSmiles(smiles) is not None, on the strings in use
ParsesAsMolecule(s) == s \in {"CCO", "C"}

\* lines 53-58: the four RDKit descriptors (MolWt in 1/1000, LogP in 1/10000)
DescriptorsOf(s) ==
  IF s = "CCO"
    THEN [MolWt |-> 46069, LogP |-> -14, NumHDonors |-> 1, NumHAcceptors |-> 1]
    ELSE [MolWt |-> 16043, LogP |-> 6361, NumHDonors |-> 0, NumHAcceptors |-> 0]

\* lines 50-58
ComputeDescriptors ==
  /\ pc = "compute_mol"
  /\ IF ~ParsesAsMolecule(c_smiles.v)
       THEN /\ exc' = Exc("ValueError", "Failed to transform SMILES into molecules")
            /\ pc' = "compute_raised"
            /\ UNCHANGED compute_ret
       ELSE /\ compute_ret' = DescriptorsOf(c_smiles.v)
            /\ exc' = exc
            /\ pc' = "compute_returned"
  /\ UNCHANGED <<entry, calls, fetchLocals, c_smiles, saveLocals, mainLocals,
                 log, stdout, httpVars, mongoVars>>

----------------------------------------------------------------------------
(* save_to_mongo *)

\* variant: the descriptors left out of the document
M_ComposeDocument(record, descs) ==
  [name |-> record.name, smiles |-> record.smiles]

\* line 87: {**pubchem_data, "descriptors": descriptors}
ComposeDocument(record, descs) ==
  [name |-> record.name, smiles |-> record.smiles, descriptors |-> descs]

\* lines 83-88: descriptors = ...; print; doc = {...}; save_to_mongo(doc)
MainCallSave ==
  /\ entry = "main"
  /\ pc = "compute_returned"
  /\ descriptors' = compute_ret
  /\ stdout' = Append(stdout, Emit("Descriptors:", compute_ret))
  /\ document' = ComposeDocument(pubchem_data, compute_ret)
  /\ calls' = Append(calls, "save_to_mongo")
  /\ c_smiles' = Unbound
  /\ compute_ret' = Unbound
  /\ pc' = "save_open"
  /\ UNCHANGED <<entry, exc, fetchLocals, client, save_ret, pubchem_data,
                 mongo_id, log, httpVars, mongoVars>>

\* what MongoClient(...) can raise
OpenFailures ==
  { Exc("ConnectionFailure", "connection refused"),
    Exc("ConfigurationError", "invalid option"),
    Exc("RuntimeError", "can't start new thread") }

\* what insert_one can raise
InsertFailures ==
  { Exc("ConnectionFailure", "server selection timed out"),
    Exc("DuplicateKeyError", "E11000 duplicate key"),
    Exc("TypeError", "document must be a mapping") }

\* line 63: client = MongoClient(...)
SaveOpen ==
  /\ pc = "save_open"
  /\ \/ /\ client' = "open"
        /\ opened' = opened + 1
        /\ pc' = "save_insert"
        /\ UNCHANGED <<exc, store_fault>>
     \/ \E e \in OpenFailures :
          /\ exc' = e
          /\ store_fault' = e
          /\ pc' = "save_except"
          /\ UNCHANGED <<client, opened>>
  /\ UNCHANGED <<entry, calls, fetchLocals, computeLocals, document, save_ret,
                 mainLocals, store, closed, close_calls, insert_calls, log,
                 stdout, httpVars>>

\* the identifier the store gives the next document
NewId(docs) == [t |-> "ObjectId", v |-> ToString(Len(docs) + 1)]

\* line 66: the _id of the inserted document: its own, or a new one
InsertedId(doc, docs) == IF Has(doc, "_id") THEN doc._id ELSE NewId(docs)

\* line 66: insert_one adds the "_id" key to the dict it is given, in place
WithId(doc, id) ==
  [k \in DOMAIN doc \cup {"_id"} |-> IF k \in DOMAIN doc THEN doc[k] ELSE id]

\* line 66: insert_one checks the document's type first; an error of that
\* check is raised before the "_id" key is added, any other error after
RaisedByTypeCheck(e) == e.type = "TypeError"

\* lines 64-67: insert_one(document), which puts the _id into the caller's
\* dict and then writes, the write storing the document or raising;
\* return result.inserted_id (pending the finally clause)
SaveInsert ==
  /\ pc = "save_insert"
  /\ insert_calls' = insert_calls + 1
  /\ \/ /\ store' = Append(store, [_id |-> InsertedId(document, store),
                                   doc |-> document])
        /\ document' = WithId(document, InsertedId(document, store))
        /\ save_ret' = InsertedId(document, store)
        /\ pc' = "save_finally"
        /\ UNCHANGED <<exc, store_fault>>
     \/ \E e \in InsertFailures :
          /\ exc' = e
          /\ store_fault' = e
          /\ pc' = "save_except"
          /\ document' = IF RaisedByTypeCheck(e)
                           THEN document
                           ELSE WithId(document, InsertedId(document, store))
          /\ UNCHANGED <<store, save_ret>>
  /\ UNCHANGED <<entry, calls, fetchLocals, computeLocals, client,
                 mainLocals, opened, closed, close_calls, log, stdout,
                 httpVars>>

\* lines 68-70: except (PyMongoError, ConnectionFailure): log and re-raise
SaveExcept ==
  /\ pc = "save_except"
  /\ log' = IF IsInstance(exc, "PyMongoError") \/ IsInstance(exc, "ConnectionFailure")
              THEN Append(log, LogEntry("ERROR", "MongoDB error", exc))
              ELSE log
  /\ pc' = "save_finally"
  /\ UNCHANGED <<entry, exc, calls, fetchLocals, computeLocals, saveLocals,
                 mainLocals, stdout, httpVars, mongoVars>>

\* lines 71-72: finally: client.close().  With `client` never bound the
\* statement raises UnboundLocalError, which replaces what was in flight.
SaveFinally ==
  /\ pc = "save_finally"
  /\ close_calls' = close_calls + 1
  /\ IF client = "unbound"
       THEN /\ exc' = Exc("UnboundLocalError", "client")
            /\ pc' = "save_raised"
            /\ UNCHANGED <<client, closed>>
       ELSE /\ client' = "closed"
            /\ closed' = closed + 1
            /\ exc' = exc
            /\ pc' = IF exc = NoExc THEN "save_returned" ELSE "save_raised"
  /\ UNCHANGED <<entry, calls, fetchLocals, computeLocals, document, save_ret,
                 mainLocals, store, opened, insert_calls, store_fault, log,
                 stdout, httpVars>>

----------------------------------------------------------------------------
(* __main__ *)

\* lines 88-89: mongo_id = save_to_mongo(doc); print
MainSaved ==
  /\ entry = "main"
  /\ pc = "save_returned"
  /\ mongo_id' = save_ret
  /\ stdout' = Append(stdout, Emit("Document saved to MongoDB", save_ret))
  /\ document' = Unbound
  /\ client' = "unbound"
  /\ save_ret' = Unbound
  /\ pc' = "done"
  /\ UNCHANGED <<entry, exc, calls, fetchLocals, computeLocals, pubchem_data,
                 descriptors, log, httpVars, mongoVars>>

\* variant: no clause for requests.RequestException
M_HandlerEntry(e) ==
  IF IsInstance(e, "ValueError") THEN LogEntry("ERROR", "Validation error", e)
  ELSE IF IsInstance(e, "PyMongoError") THEN LogEntry("ERROR", "MongoDB error", e)
  ELSE LogEntry("CRITICAL", "Unexpected error", e)

\* lines 90-97: the first except clause whose class the exception is of
HandlerEntry(e) ==
  IF IsInstance(e, "ValueError") THEN LogEntry("ERROR", "Validation error", e)
  ELSE IF IsInstance(e, "RequestException") THEN LogEntry("ERROR", "Network error", e)
  ELSE IF IsInstance(e, "PyMongoError") THEN LogEntry("ERROR", "MongoDB error", e)
  ELSE LogEntry("CRITICAL", "Unexpected error", e)

\* variant: an error of fetch_data is logged and the run goes on
M_MainExcept ==
  /\ entry = "main"
  /\ pc \in {"fetch_raised", "compute_raised", "save_raised"}
  /\ log' = Append(log, HandlerEntry(exc))
  /\ exc' = NoExc
  /\ compound_name' = Unbound
  /\ response' = Unbound
  /\ data' = Unbound
  /\ compound' = Unbound
  /\ smiles' = Unbound
  /\ document' = Unbound
  /\ client' = "unbound"
  /\ IF pc = "fetch_raised"
       THEN /\ c_smiles' = NoneV
            /\ calls' = Append(calls, "compute_descriptors")
            /\ pc' = "compute_validate"
       ELSE /\ c_smiles' = Unbound
            /\ calls' = calls
            /\ pc' = "done"
  /\ UNCHANGED <<entry, fetch_ret, compute_ret, save_ret, mainLocals,
                 stdout, httpVars, mongoVars>>

\* lines 90-97: an exception out of any stage ends the try block
MainExcept ==
  /\ entry = "main"
  /\ pc \in {"fetch_raised", "compute_raised", "save_raised"}
  /\ log' = Append(log, HandlerEntry(exc))
  /\ exc' = NoExc
  /\ compound_name' = Unbound
  /\ response' = Unbound
  /\ data' = Unbound
  /\ compound' = Unbound
  /\ smiles' = Unbound
  /\ c_smiles' = Unbound
  /\ document' = Unbound
  /\ client' = "unbound"
  /\ pc' = "done"
  /\ UNCHANGED <<entry, calls, fetch_ret, compute_ret, save_ret, mainLocals,
                 stdout, httpVars, mongoVars>>

----------------------------------------------------------------------------
(* Vocabulary of the properties *)

EmptyOrNotText(x) == x.t # "str" \/ x.v = ""

FetchEnded == pc \in {"fetch_returned", "fetch_raised"}

SaveEnded == pc \in {"save_returned", "save_raised"}

Answered == response # Unbound

Tagged(p) ==
  /\ "urn" \in DOMAIN p
  /\ {"label", "name"} \subseteq DOMAIN p.urn
  /\ p.urn.label = "SMILES"
  /\ p.urn.name = "Connectivity"

TaggedAt(c) ==
  IF "props" \in DOMAIN c THEN {j \in DOMAIN c.props : Tagged(c.props[j])} ELSE {}

FirstTagged(c) ==
  c.props[CHOOSE j \in TaggedAt(c) : \A k \in TaggedAt(c) : j <= k]

SvalOf(p) ==
  IF "value" \in DOMAIN p /\ "sval" \in DOMAIN p.value THEN p.value.sval ELSE NoneV

CompoundsOf(d) == IF "PC_Compounds" \in DOMAIN d THEN d.PC_Compounds ELSE <<>>

JsonBody == Answered /\ response.body.json

ErrorEntries(l) == SelectSeq(l, LAMBDA e : e.level \in {"ERROR", "CRITICAL"})

IdShown ==
  \E i \in DOMAIN stdout : stdout[i][1] = "Document saved to MongoDB"

RunEnded == entry = "main" /\ pc = "done"

IsStoreError(e) ==
  e.type \in {"ConnectionFailure", "ConfigurationError", "DuplicateKeyError"}

----------------------------------------------------------------------------

Next ==
  \/ MainCallFetch
  \/ FetchValidate
  \/ FetchGet
  \/ FetchStatus
  \/ FetchJson
  \/ FetchCompounds
  \/ FetchProps
  \/ FetchReturn
  \/ MainCallCompute
  \/ ComputeValidate
  \/ ComputeDescriptors
  \/ MainCallSave
  \/ SaveOpen
  \/ SaveInsert
  \/ SaveExcept
  \/ SaveFinally
  \/ MainSaved
  \/ MainExcept

Spec == Init /\ [][Next]_vars

----------------------------------------------------------------------------
(* Properties *)

\* C1 (as stated): when save_to_mongo ends, by return or by exception, every
\* connection it opened has been closed, and client.close() was attempted
\* once per opened connection and never without one.
C1_ReleasedExactlyOnce ==
  SaveEnded => /\ closed = opened
               /\ close_calls = opened

\* C2: a compound name that is empty or not text makes fetch_data raise
\* ValueError "Invalid compound name", and no request has been sent then.
C2_InvalidNameFailsBeforeRequest ==
  (compound_name # Unbound /\ EmptyOrNotText(compound_name)
     /\ pc # "fetch_validate")
    => /\ pc = "fetch_raised"
       /\ exc = Exc("ValueError", "Invalid compound name")
       /\ requests_sent = <<>>
       /\ ~Answered

C2_Witness ==
  /\ pc = "fetch_raised"
  /\ compound_name = IntV("5")
  /\ requests_sent = <<>>

\* a response body in which every compound has a property list and every
\* SMILES/Connectivity property a text value
Complete(d) ==
  \A i \in DOMAIN CompoundsOf(d) :
    /\ "props" \in DOMAIN d.PC_Compounds[i]
    /\ \A j \in TaggedAt(d.PC_Compounds[i]) :
         IsStr(SvalOf(d.PC_Compounds[i].props[j]))

\* C3 (as stated, read in its favour: status 200, complete body): for a
\* response whose compound list holds a compound with a SMILES/Connectivity
\* property, fetch_data returns the queried name and the value of the first
\* such property of the first compound entry.
C3_TaggedSmilesReturned ==
  (FetchEnded /\ JsonBody /\ response.status_code = 200
     /\ Complete(response.body.data)
     /\ \E i \in DOMAIN CompoundsOf(response.body.data) :
          TaggedAt(response.body.data.PC_Compounds[i]) # {})
    => /\ pc = "fetch_returned"
       /\ fetch_ret.name = compound_name
       /\ TaggedAt(response.body.data.PC_Compounds[1]) # {}
       /\ fetch_ret.smiles = SvalOf(FirstTagged(response.body.data.PC_Compounds[1]))

\* C3 (amended): for a response with status 200 and a JSON body whose first
\* compound entry has a SMILES/Connectivity property, the first such property
\* carrying a non-empty value, fetch_data returns the queried name and exactly
\* that value; later entries and later matching properties are ignored.
C3_FirstTaggedValueReturned ==
  (FetchEnded /\ JsonBody /\ response.status_code = 200
     /\ CompoundsOf(response.body.data) # <<>>
     /\ TaggedAt(response.body.data.PC_Compounds[1]) # {}
     /\ Truthy(SvalOf(FirstTagged(response.body.data.PC_Compounds[1]))))
    => /\ pc = "fetch_returned"
       /\ fetch_ret.name = compound_name
       /\ fetch_ret.smiles = SvalOf(FirstTagged(response.body.data.PC_Compounds[1]))

C3_Witness ==
  /\ pc = "fetch_returned"
  /\ Len(data.PC_Compounds) = 2
  /\ TaggedAt(data.PC_Compounds[2]) # {}
  /\ TaggedAt(compound) = {1, 2}
  /\ SvalOf(compound.props[1]) = Str("XX")
  /\ SvalOf(compound.props[2]) = Str("CCO")
  /\ fetch_ret = [name |-> Str("aspirin"), smiles |-> Str("XX")]

\* C4 (as stated): for a status-200 response with a non-empty compound list
\* whose first compound has no SMILES/Connectivity property (its property
\* list absent or empty included), fetch_data raises ValueError
\* "No SMILES found" and nothing else.
C4_NoTaggedPropertyIsMissingField ==
  (FetchEnded /\ JsonBody /\ response.status_code = 200
     /\ CompoundsOf(response.body.data) # <<>>
     /\ TaggedAt(response.body.data.PC_Compounds[1]) = {})
    => /\ pc = "fetch_raised"
       /\ exc = Exc("ValueError", "No SMILES found")

\* C5: in a run of __main__, compute_descriptors is invoked only after
\* fetch_data returned, save_to_mongo and insert_one only after
\* compute_descriptors returned too, and every document the run inserts has
\* the name, the smiles and the descriptors.
C5_FailureAbortsLaterStages ==
  entry = "main" =>
    /\ \E n \in 0..3 :
         calls = SubSeq(<<"fetch_data", "compute_descriptors", "save_to_mongo">>, 1, n)
    /\ Len(calls) >= 2 => /\ pubchem_data # Unbound
                          /\ {"name", "smiles"} \subseteq DOMAIN pubchem_data
    /\ Len(calls) >= 3 => /\ descriptors # Unbound
                          /\ pubchem_data # Unbound
    /\ insert_calls > 0 => Len(calls) = 3
    /\ \A i \in DOMAIN store :
         {"name", "smiles", "descriptors"} \subseteq DOMAIN store[i].doc

C5_Witness ==
  /\ entry = "main"
  /\ pc = "done"
  /\ calls = <<"fetch_data", "compute_descriptors">>
  /\ store = <<>>
  /\ Len(ErrorEntries(log)) = 1

\* C6 (as stated): when the driver raised a store error (ConnectionFailure
\* or another PyMongoError), save_to_mongo ends by raising, and what the
\* caller receives is that very error.
C6_CallerReceivesStoreError ==
  (SaveEnded /\ IsStoreError(store_fault)) =>
    /\ pc = "save_raised"
    /\ exc = store_fault

\* C7 (as stated): a run ends with no exception in flight, either with the
\* identifier shown and no error logged, or with no identifier shown and
\* exactly one error logged: in the category of its kind, store failures as
\* "MongoDB error", the ValueError kinds as "Validation error", anything
\* else as "Unexpected error".
C7_OneErrorLoggedByKind ==
  RunEnded =>
    /\ exc = NoExc
    /\ \/ IdShown /\ ErrorEntries(log) = <<>>
       \/ /\ ~IdShown
          /\ Len(ErrorEntries(log)) = 1
          /\ LET e == ErrorEntries(log)[1] IN
               e.text = CASE e.exc.type = "ValueError" -> "Validation error"
                          [] IsStoreError(e.exc) -> "MongoDB error"
                          [] OTHER -> "Unexpected error"

\* the category of the except clause an exception of this class reaches
RunnerCategory(type) ==
  CASE type \in {"ValueError", "JSONDecodeError"} -> "Validation error"
    [] type = "ConnectionError" -> "Network error"
    [] type \in {"ConnectionFailure", "ConfigurationError", "DuplicateKeyError"} ->
         "MongoDB error"
    [] OTHER -> "Unexpected error"

\* C7 (amended): a run ends with no exception in flight, either with the
\* identifier shown and no error logged, or with no identifier shown and the
\* runner's single entry last in the log, under the category of the
\* exception's class (ValueError: "Validation error"; requests failure:
\* "Network error"; PyMongoError: "MongoDB error"; otherwise "Unexpected
\* error", critical).  The only other error entry a run can hold is
\* save_to_mongo's own "MongoDB error" entry for the driver's PyMongoError.
C7_RunnerLogsByClass ==
  RunEnded =>
    /\ exc = NoExc
    /\ \/ IdShown /\ ErrorEntries(log) = <<>>
       \/ /\ ~IdShown
          /\ ErrorEntries(log) # <<>>
          /\ log[Len(log)] = ErrorEntries(log)[Len(ErrorEntries(log))]
          /\ LET e == log[Len(log)] IN
               /\ e.exc # NoExc
               /\ e.text = RunnerCategory(e.exc.type)
               /\ e.level = IF e.text = "Unexpected error" THEN "CRITICAL" ELSE "ERROR"
          /\ IF IsStoreError(store_fault)
               THEN /\ Len(ErrorEntries(log)) = 2
                    /\ ErrorEntries(log)[1] =
                         LogEntry("ERROR", "MongoDB error", store_fault)
               ELSE Len(ErrorEntries(log)) = 1

C7_Witness ==
  /\ RunEnded
  /\ ~IdShown
  /\ Len(ErrorEntries(log)) = 2
  /\ log[Len(log)] = LogEntry("ERROR", "MongoDB error",
                              Exc("DuplicateKeyError", "E11000 duplicate key"))

\* C8: a run that ends with the identifier shown has inserted exactly one
\* document; it holds the name "aspirin", the smiles fetch_data returned and
\* the four descriptors, and the identifier is the one the store gave it.
C8_SuccessPersistsCompleteDocument ==
  (RunEnded /\ IdShown) =>
    /\ Len(store) = 1
    /\ DOMAIN store[1].doc = {"name", "smiles", "descriptors"}
    /\ store[1].doc.name = Str("aspirin")
    /\ store[1].doc.smiles = pubchem_data.smiles
    /\ DOMAIN store[1].doc.descriptors =
         {"MolWt", "LogP", "NumHDonors", "NumHAcceptors"}
    /\ store[1].doc.descriptors = descriptors
    /\ mongo_id = store[1]._id
    /\ stdout[Len(stdout)] = <<"Document saved to MongoDB", store[1]._id>>

C8_Witness ==
  /\ RunEnded
  /\ IdShown
  /\ Len(store) = 1
  /\ store[1].doc.smiles = Str("CCO")

\* C9: at most one request is sent and at most one insert attempted; a
\* failed request leaves fetch_data at once with the request's error, and a
\* failed insert leaves save_to_mongo with the insert's error, nothing
\* having been stored.
C9_NoRetry ==
  /\ Len(requests_sent) <= 1
  /\ insert_calls <= 1
  /\ (compound_name # Unbound /\ requests_sent # <<>> /\ ~Answered)
       => pc = "fetch_raised" /\ exc \in RequestFailures
  /\ (document # Unbound /\ insert_calls = 1 /\ store_fault # NoExc)
       => /\ pc \in {"save_except", "save_finally", "save_raised"}
          /\ exc = store_fault
          /\ store = <<>>

C9_Witness ==
  /\ pc = "save_raised"
  /\ insert_calls = 1
  /\ requests_sent = <<"aspirin">>
  /\ exc = Exc("ConnectionFailure", "server selection timed out")

\* C10: fetch_data reports the first failing check in the order name,
\* status, compound list, SMILES value; a body is parsed only under status
\* 200; a returned record never has an empty smiles.
C10_ChecksInOrder ==
  /\ (pc = "fetch_raised" /\ exc.type = "ValueError") =>
       CASE exc.msg = "Invalid compound name" ->
              EmptyOrNotText(compound_name) /\ requests_sent = <<>>
         [] exc.msg = "Failed" ->
              /\ ~EmptyOrNotText(compound_name)
              /\ response.status_code # 200
         [] exc.msg = "No compound data found" ->
              /\ ~EmptyOrNotText(compound_name)
              /\ response.status_code = 200
              /\ CompoundsOf(response.body.data) = <<>>
         [] exc.msg = "No SMILES found" ->
              /\ ~EmptyOrNotText(compound_name)
              /\ response.status_code = 200
              /\ CompoundsOf(response.body.data) # <<>>
              /\ LET c == response.body.data.PC_Compounds[1] IN
                   TaggedAt(c) = {} \/ ~Truthy(SvalOf(FirstTagged(c)))
         [] OTHER -> FALSE
  /\ (Answered /\ response.status_code # 200 /\ pc # "fetch_status") =>
       /\ pc = "fetch_raised"
       /\ exc = Exc("ValueError", "Failed")
       /\ json_calls = 0
       /\ data = Unbound
  /\ (data # Unbound /\ CompoundsOf(data) = <<>> /\ pc # "fetch_compounds") =>
       /\ pc = "fetch_raised"
       /\ exc = Exc("ValueError", "No compound data found")
  /\ (pc = "fetch_raised" /\ data # Unbound /\ CompoundsOf(data) # <<>>
        /\ "props" \in DOMAIN data.PC_Compounds[1]
        /\ (TaggedAt(data.PC_Compounds[1]) = {}
              \/ SvalOf(FirstTagged(data.PC_Compounds[1])) = Str(""))) =>
       exc = Exc("ValueError", "No SMILES found")
  /\ (FetchEnded /\ data # Unbound /\ CompoundsOf(data) # <<>>
        /\ (TaggedAt(data.PC_Compounds[1]) = {}
              \/ ~Truthy(SvalOf(FirstTagged(data.PC_Compounds[1]))))) =>
       /\ pc = "fetch_raised"
       /\ exc.type = "ValueError" => exc.msg = "No SMILES found"
  /\ (Answered /\ json_calls > 0) => response.status_code = 200
  /\ pc = "fetch_returned" => Truthy(fetch_ret.smiles)

C10_Witness ==
  /\ pc = "fetch_raised"
  /\ Answered
  /\ response.status_code = 404
  /\ response.body.json
  /\ CompoundsOf(response.body.data) # <<>>
  /\ TaggedAt(response.body.data.PC_Compounds[1]) # {}
  /\ exc = Exc("ValueError", "Failed")
  /\ json_calls = 0

====
